---- MODULE Spec2Model ----
(***************************************************************************)
(* clawd-kanban: the label-based status synchronisation of the board page  *)
(* (src/src/app/page.tsx), the client-held detail page                     *)
(* (src/unnamed/part_002) and the status buttons of the server-held detail *)
(* page (src/src/app/issue/[number]/IssueStatusButtons.tsx), against a     *)
(* remote issue tracker that serves list and label-replace requests; the   *)
(* server-held detail page (src/unnamed/part_001) with the session         *)
(* endpoint and the label update proxy (src/unnamed/part_003); the Ensure  *)
(* labels button of the board.                                             *)
(***************************************************************************)
EXTENDS Integers, Sequences, FiniteSets, TLC

VARIABLES
    \* ---- the remote tracker (external collaborator) ----
    remote,       \* issue number -> [state, labels (a set), pull_request]
    \* ---- browser storage ----
    storedToken,  \* localStorage "kb:token"
    \* ---- Home component state (page.tsx 184-190) ----
    mounted,      \* the mount effect (192-197) has run
    token, owner, repo,
    loading, error, issues,
    \* ---- requests in flight ----
    loads,        \* list requests started by loadIssues, until their response is handled
    puts,         \* label-replace requests started by moveIssue (kept once handled, phase "done");
                  \* overlap: the ids of the moves of the same issue in flight when it started
    nreq,         \* number of requests started so far (the next request gets nreq + 1)
    lastLoad,     \* id of the most recently started loadIssues (0: none)
    lastLoadOk,   \* the response of request lastLoad was handled as a success
    lastApplied,  \* issue number -> id of the put the remote applied last (0: none)
    lastPatched,  \* issue number -> id of the put whose response patched the board last (0: none)
    \* ---- the classifier and the mutators taken alone ----
    arg,          \* the input: [labels, state, to]
    res,          \* the output of the operation applied to arg
    \* ---- server-held mode: the session cookies, the detail page, the label proxy ----
    jar,          \* the browser's cookies: name -> NoCookie or [value, maxAge]
    session,      \* what the session endpoint was last asked, and since the last DELETE
    page,         \* the detail page as last rendered, with its IssueStatusButtons state
    calls,        \* label update proxy calls, until their response is handled
    \* ---- Ensure labels ----
    repoLabels,   \* the labels the repository defines
    ensures       \* runs of ensureLabelsExist (kept once finished, phase "done")

vars == <<remote, storedToken, mounted, token, owner, repo, loading, error, issues,
          loads, puts, nreq, lastLoad, lastLoadOk, lastApplied, lastPatched,
          arg, res, jar, session, page, calls, repoLabels, ensures>>

boardVars == <<remote, storedToken, mounted, token, owner, repo, loading, error, issues,
               loads, puts, nreq, lastLoad, lastLoadOk, lastApplied, lastPatched>>

pureVars == <<arg, res>>

serverVars == <<jar, session, page, calls>>

ensureVars == <<repoLabels, ensures>>

\* everything the board page's handlers leave alone
offBoard == <<pureVars, serverVars, ensureVars>>

----------------------------------------------------------------------------
\* Bounds of the model

\* longest label list given to the classifier and the mutators taken alone
MaxLen == 3
\* most requests (loadIssues and moveIssue calls together) in one run of the board
MaxReq == 3

----------------------------------------------------------------------------
\* Static configuration

ColumnIds == {"todo", "doing", "done"}

COLUMN_ORDER == <<"todo", "doing", "done">>

COLUMN_META ==
    [todo  |-> [title |-> "Todo",  label |-> "kb:todo"],
     doing |-> [title |-> "Doing", label |-> "kb:doing"],
     done  |-> [title |-> "Done",  label |-> "kb:done"]]

\* Object.values(COLUMN_META).map((m) => m.label), in key order
ColumnLabels == [i \in 1..3 |-> COLUMN_META[COLUMN_ORDER[i]].label]

ReservedLabels == {"kb:todo", "kb:doing", "kb:done"}

\* passenger labels: any label that is not reserved
OtherLabels == {"bug", "priority:high"}

AllLabels == ReservedLabels \cup OtherLabels

\* the order in which the tracker lists an issue's labels
LabelOrder == <<"bug", "kb:doing", "kb:done", "kb:todo", "priority:high">>

DefaultOwner == "Richienv"

DefaultRepo == "clawd-kanban"

\* the token the user holds
Tok == "github_pat"

----------------------------------------------------------------------------
\* Arrays

ToSet(s) == {s[i] : i \in 1..Len(s)}

\* arr.includes(x)
Includes(s, x) == \E i \in 1..Len(s) : s[i] = x

\* number of occurrences of x in s
Count(s, x) == Cardinality({i \in 1..Len(s) : s[i] = x})

\* Array.from(new Set(arr)): the first occurrence of each element, in order
RECURSIVE ArrayFromSet(_)
ArrayFromSet(s) ==
    IF s = <<>> THEN <<>>
    ELSE LET init == ArrayFromSet(SubSeq(s, 1, Len(s) - 1))
             x == s[Len(s)]
         IN  IF Includes(init, x) THEN init ELSE Append(init, x)

\* all sequences over S of length at most n
SeqsUpTo(S, n) == UNION {[1..k -> S] : k \in 0..n}

----------------------------------------------------------------------------
\* Issues

\* an issue object of the tracker's JSON: labels are objects with a name
Issue(n, st, names, pr) ==
    [number |-> n, state |-> st,
     labels |-> [i \in 1..Len(names) |-> [name |-> names[i]]],
     pull_request |-> pr]

\* issue.labels.map((l) => l.name)
LabelNames(issue) == [i \in 1..Len(issue.labels) |-> issue.labels[i].name]

\* next.map((name) => ({ name }))
LabelObjects(names) == [i \in 1..Len(names) |-> [name |-> names[i]]]

hasLabel(issue, label) == \E i \in 1..Len(issue.labels) : issue.labels[i].name = label

----------------------------------------------------------------------------
\* Column Classifier: the columns memo of Home

EmptyColumns == [todo |-> <<>>, doing |-> <<>>, done |-> <<>>]

\* PlaceIssue with the lifecycle state tested before the labels
PlaceIssue_StateFirst(byColumn, issue) ==
    IF issue.state = "closed"
    THEN [byColumn EXCEPT !.done = Append(@, issue)]
    ELSE IF hasLabel(issue, COLUMN_META.todo.label)
    THEN [byColumn EXCEPT !.todo = Append(@, issue)]
    ELSE IF hasLabel(issue, COLUMN_META.doing.label)
    THEN [byColumn EXCEPT !.doing = Append(@, issue)]
    ELSE IF hasLabel(issue, COLUMN_META.done.label)
    THEN [byColumn EXCEPT !.done = Append(@, issue)]
    ELSE [byColumn EXCEPT !.todo = Append(@, issue)]

\* PlaceIssue with independent ifs in place of the else-if chain
PlaceIssue_NoElse(byColumn, issue) ==
    LET inTodo == hasLabel(issue, COLUMN_META.todo.label)
        inDoing == hasLabel(issue, COLUMN_META.doing.label)
        inDone == hasLabel(issue, COLUMN_META.done.label) \/ issue.state = "closed"
        b1 == IF inTodo \/ ~(inDoing \/ inDone)
              THEN [byColumn EXCEPT !.todo = Append(@, issue)] ELSE byColumn
        b2 == IF inDoing THEN [b1 EXCEPT !.doing = Append(@, issue)] ELSE b1
    IN  IF inDone THEN [b2 EXCEPT !.done = Append(@, issue)] ELSE b2

\* one iteration of the loop over issues: the if / else-if chain
PlaceIssue(byColumn, issue) ==
    IF hasLabel(issue, COLUMN_META.todo.label)
    THEN [byColumn EXCEPT !.todo = Append(@, issue)]
    ELSE IF hasLabel(issue, COLUMN_META.doing.label)
    THEN [byColumn EXCEPT !.doing = Append(@, issue)]
    ELSE IF hasLabel(issue, COLUMN_META.done.label) \/ issue.state = "closed"
    THEN [byColumn EXCEPT !.done = Append(@, issue)]
    ELSE [byColumn EXCEPT !.todo = Append(@, issue)]

\* for (const issue of issues) ...
RECURSIVE PlaceAll(_, _)
PlaceAll(byColumn, iss) ==
    IF iss = <<>> THEN byColumn
    ELSE PlaceAll(PlaceIssue(byColumn, Head(iss)), Tail(iss))

\* stable insertion of x into a list sorted by (a, b) => b.number - a.number
RECURSIVE InsertDesc(_, _)
InsertDesc(sorted, x) ==
    IF sorted = <<>> THEN <<x>>
    ELSE IF Head(sorted).number >= x.number
    THEN <<Head(sorted)>> \o InsertDesc(Tail(sorted), x)
    ELSE <<x>> \o sorted

\* list.sort((a, b) => b.number - a.number): stable, descending number
RECURSIVE SortDesc(_)
SortDesc(list) ==
    IF list = <<>> THEN <<>>
    ELSE InsertDesc(SortDesc(SubSeq(list, 1, Len(list) - 1)), list[Len(list)])

columns(iss) ==
    LET byColumn == PlaceAll(EmptyColumns, iss)
    IN  [col \in ColumnIds |-> SortDesc(byColumn[col])]

----------------------------------------------------------------------------
\* Status Mutator: the label list a move sends

\* moveIssueNext sending the target's label alone
moveIssueNext_TargetOnly(issue, to) == <<COLUMN_META[to].label>>

\* board: moveIssue, from targetLabel to next
moveIssueNext(issue, to) ==
    LET targetLabel == COLUMN_META[to].label
        otherLabels == SelectSeq(ColumnLabels, LAMBDA l : l # targetLabel)
        existing == SelectSeq(LabelNames(issue), LAMBDA n : ~Includes(otherLabels, n))
    IN  ArrayFromSet(existing \o <<targetLabel>>)

\* statusButtonNext without the filter on the other column labels
statusButtonNext_KeepsOthers(issue, c) ==
    ArrayFromSet(LabelNames(issue) \o <<COLUMN_META[c].label>>)

\* client-held detail page: the status button's onClick, from other to next
statusButtonNext(issue, c) ==
    LET other == SelectSeq(ColumnLabels, LAMBDA l : l # COLUMN_META[c].label)
        existing == SelectSeq(LabelNames(issue), LAMBDA n : ~Includes(other, n))
    IN  ArrayFromSet(existing \o <<COLUMN_META[c].label>>)

\* setStatusNext filtering every column label, the target's included
setStatusNext_StripAll(currentLabels, to) ==
    LET existing == SelectSeq(currentLabels, LAMBDA n : ~Includes(ColumnLabels, n))
    IN  ArrayFromSet(existing \o <<COLUMN_META[to].label>>)

\* setStatusNext putting the target's label first
setStatusNext_TargetFirst(currentLabels, to) ==
    LET other == SelectSeq(ColumnLabels, LAMBDA l : l # COLUMN_META[to].label)
        existing == SelectSeq(currentLabels, LAMBDA n : ~Includes(other, n))
    IN  ArrayFromSet(<<COLUMN_META[to].label>> \o existing)

\* server-held detail page: IssueStatusButtons.setStatus, from other to next
setStatusNext(currentLabels, to) ==
    LET other == SelectSeq(ColumnLabels, LAMBDA l : l # COLUMN_META[to].label)
        existing == SelectSeq(currentLabels, LAMBDA n : ~Includes(other, n))
    IN  ArrayFromSet(existing \o <<COLUMN_META[to].label>>)

----------------------------------------------------------------------------
\* The classifier and the mutators taken alone: arg is the input, res the output

ArgNone == [labels |-> <<>>, state |-> "open", to |-> "todo"]

ResNone == [op |-> "none", byColumn |-> EmptyColumns, next |-> <<>>]

Args == [labels : SeqsUpTo(AllLabels, MaxLen), state : {"open", "closed"}, to : ColumnIds]

\* the issue arg describes
ArgIssue == Issue(1, arg.state, arg.labels, FALSE)

ApplyColumns ==
    /\ res.op = "none"
    /\ res' = [op |-> "columns", byColumn |-> columns(<<ArgIssue>>), next |-> <<>>]
    /\ UNCHANGED <<arg, boardVars, serverVars, ensureVars>>

ApplyMoveIssue ==
    /\ res.op = "none"
    /\ res' = [op |-> "moveIssue", byColumn |-> EmptyColumns,
               next |-> moveIssueNext(ArgIssue, arg.to)]
    /\ UNCHANGED <<arg, boardVars, serverVars, ensureVars>>

ApplyStatusButton ==
    /\ res.op = "none"
    /\ res' = [op |-> "statusButton", byColumn |-> EmptyColumns,
               next |-> statusButtonNext(ArgIssue, arg.to)]
    /\ UNCHANGED <<arg, boardVars, serverVars, ensureVars>>

ApplySetStatus ==
    /\ res.op = "none"
    /\ res' = [op |-> "setStatus", byColumn |-> EmptyColumns,
               next |-> setStatusNext(LabelNames(ArgIssue), arg.to)]
    /\ UNCHANGED <<arg, boardVars, serverVars, ensureVars>>

----------------------------------------------------------------------------
\* The remote tracker

Numbers == {1, 2, 3}

\* the numbers in the order of the list response (newest first)
ListOrder == <<3, 2, 1>>

\* non-success responses of the tracker: status, status text, body text
FailStatuses == {403}

StatusText(s) ==
    IF s = 403 THEN "Forbidden"
    ELSE IF s = 401 THEN "Unauthorized"
    ELSE IF s = 422 THEN "Unprocessable Entity"
    ELSE "Not Found"

BodyText(s) == IF s = 403 THEN "Resource not accessible" ELSE IF s = 404 THEN "Not Found" ELSE ""

\* the label names of a set, as the tracker lists them
ListedLabels(S) == SelectSeq(LabelOrder, LAMBDA l : l \in S)

\* GET /repos/{owner}/{repo}/issues?state=all&per_page=100: issues and pull requests
Listing(rem) ==
    [i \in 1..Len(ListOrder) |->
        Issue(ListOrder[i], rem[ListOrder[i]].state,
              ListedLabels(rem[ListOrder[i]].labels), rem[ListOrder[i]].pull_request)]

\* the reserved labels issue 1 carries when the board is opened: none, one, two
\* or all three (the tracker's own UI can set any of them)
StartLabels == {{}, {"kb:doing"}, {"kb:todo", "kb:done"}, ReservedLabels}

\* the states the tracker can be in when the board is opened: issue 1 with either
\* lifecycle state, one of StartLabels and a passenger label, issue 2 closed and
\* carrying kb:todo, number 3 a pull request
RemoteConfigs ==
    {[n \in Numbers |->
        IF n = 1 THEN [state |-> st, labels |-> L \cup {"bug"}, pull_request |-> FALSE]
        ELSE IF n = 2 THEN [state |-> "closed", labels |-> {"kb:todo", "priority:high"},
                            pull_request |-> FALSE]
        ELSE [state |-> "open", labels |-> {"kb:doing"}, pull_request |-> TRUE]]
     : st \in {"open", "closed"}, L \in StartLabels}

----------------------------------------------------------------------------
\* ghFetch: the error of a non-success response

Null == <<>>

\* `${res.status} ${res.statusText}${text ? ` -- ${text}` : ""}` (the dash is U+2014)
ErrorMessage(status, statusText, text) ==
    <<ToString(status), " ", statusText>> \o (IF text # "" THEN <<" -- ", text>> ELSE <<>>)

ghFetchError(status) == ErrorMessage(status, StatusText(status), BodyText(status))

----------------------------------------------------------------------------
\* Home: the board page

ready == token # "" /\ owner # "" /\ repo # ""

NoPatch == [n \in Numbers |-> 0]

InBoard(n) == \E i \in 1..Len(issues) : issues[i].number = n

\* issues.find((x) => x.number === issueNumber)
FindIssue(n) == issues[CHOOSE i \in 1..Len(issues) :
                          /\ issues[i].number = n
                          /\ \A j \in 1..(i - 1) : issues[j].number # n]

\* loadIssues up to its await: setLoading(true), setError(null), the list request
loadIssuesStart ==
    /\ loading' = TRUE
    /\ error' = Null
    /\ loads' = loads \cup {[id |-> nreq + 1, phase |-> "sent", data |-> <<>>, status |-> 0]}
    /\ nreq' = nreq + 1
    /\ lastLoad' = nreq + 1
    /\ lastLoadOk' = FALSE

\* the mount effect reads the stored session; the load effect follows it
Mount ==
    /\ ~mounted
    /\ mounted' = TRUE
    /\ token' = storedToken
    /\ owner' = DefaultOwner
    /\ repo' = DefaultRepo
    /\ IF storedToken # ""
       THEN loadIssuesStart
       ELSE UNCHANGED <<loading, error, loads, nreq, lastLoad, lastLoadOk>>
    /\ UNCHANGED <<remote, storedToken, issues, puts, lastApplied, lastPatched, offBoard>>

\* the token input's onChange (shown while not ready); the load effect follows it
EnterToken ==
    /\ mounted
    /\ ~ready
    /\ nreq < MaxReq
    /\ token' = Tok
    /\ storedToken' = Tok
    /\ IF owner # "" /\ repo # ""
       THEN loadIssuesStart
       ELSE UNCHANGED <<loading, error, loads, nreq, lastLoad, lastLoadOk>>
    /\ UNCHANGED <<remote, mounted, owner, repo, issues, puts, lastApplied, lastPatched,
                   offBoard>>

\* the Refresh button: disabled={!ready || loading}
Refresh ==
    /\ mounted
    /\ ready
    /\ ~loading
    /\ nreq < MaxReq
    /\ loadIssuesStart
    /\ UNCHANGED <<remote, storedToken, mounted, token, owner, repo, issues, puts,
                   lastApplied, lastPatched, offBoard>>

\* the Log out button: disabled={!token}
Logout ==
    /\ token # ""
    /\ storedToken' = ""
    /\ token' = ""
    /\ error' = Null
    /\ issues' = <<>>
    /\ lastPatched' = NoPatch
    /\ UNCHANGED <<remote, mounted, owner, repo, loading, loads, puts, nreq, lastLoad,
                   lastLoadOk, lastApplied, offBoard>>

\* the tracker answers a list request
RemoteListOk(r) ==
    /\ r \in loads
    /\ r.phase = "sent"
    /\ loads' = (loads \ {r}) \cup {[r EXCEPT !.phase = "ok", !.data = Listing(remote),
                                              !.status = 200]}
    /\ UNCHANGED <<remote, storedToken, mounted, token, owner, repo, loading, error, issues,
                   puts, nreq, lastLoad, lastLoadOk, lastApplied, lastPatched, offBoard>>

RemoteListFail(r, s) ==
    /\ r \in loads
    /\ r.phase = "sent"
    /\ loads' = (loads \ {r}) \cup {[r EXCEPT !.phase = "fail", !.status = s]}
    /\ UNCHANGED <<remote, storedToken, mounted, token, owner, repo, loading, error, issues,
                   puts, nreq, lastLoad, lastLoadOk, lastApplied, lastPatched, offBoard>>

\* loadIssuesResolve without the pull-request filter
loadIssuesResolve_NoFilter(r) ==
    /\ r \in loads
    /\ r.phase = "ok"
    /\ issues' = r.data
    /\ loading' = FALSE
    /\ loads' = loads \ {r}
    /\ lastLoadOk' = (lastLoadOk \/ r.id = lastLoad)
    /\ lastPatched' = NoPatch
    /\ UNCHANGED <<remote, storedToken, mounted, token, owner, repo, error, puts, nreq,
                   lastLoad, lastApplied, offBoard>>

\* loadIssues after its await, on success: setIssues(data.filter((x) => !x.pull_request))
loadIssuesResolve(r) ==
    /\ r \in loads
    /\ r.phase = "ok"
    /\ issues' = SelectSeq(r.data, LAMBDA x : ~x.pull_request)
    /\ loading' = FALSE
    /\ loads' = loads \ {r}
    /\ lastLoadOk' = (lastLoadOk \/ r.id = lastLoad)
    /\ lastPatched' = NoPatch
    /\ UNCHANGED <<remote, storedToken, mounted, token, owner, repo, error, puts, nreq,
                   lastLoad, lastApplied, offBoard>>

\* loadIssues after its await, on failure: setError(e.message)
loadIssuesReject(r) ==
    /\ r \in loads
    /\ r.phase = "fail"
    /\ error' = ghFetchError(r.status)
    /\ loading' = FALSE
    /\ loads' = loads \ {r}
    /\ UNCHANGED <<remote, storedToken, mounted, token, owner, repo, issues, puts, nreq,
                   lastLoad, lastLoadOk, lastApplied, lastPatched, offBoard>>

\* PatchIssues adding next to the labels the issue has
PatchIssues_Merge(prev, n, next) ==
    [i \in 1..Len(prev) |->
        IF prev[i].number = n
        THEN [prev[i] EXCEPT !.labels = LabelObjects(ArrayFromSet(LabelNames(prev[i]) \o next))]
        ELSE prev[i]]

\* setIssues((prev) => prev.map(...)): the labels of issue number n replaced by next
PatchIssues(prev, n, next) ==
    [i \in 1..Len(prev) |->
        IF prev[i].number = n THEN [prev[i] EXCEPT !.labels = LabelObjects(next)]
        ELSE prev[i]]

\* moveIssueStart patching the board before the tracker has answered
moveIssueStart_Optimistic(n, to) ==
    /\ mounted
    /\ ready
    /\ InBoard(n)
    /\ nreq < MaxReq
    /\ puts' = puts \cup
          {[id |-> nreq + 1, num |-> n, to |-> to, next |-> moveIssueNext(FindIssue(n), to),
            overlap |-> {p.id : p \in {q \in puts : q.num = n /\ q.phase # "done"}},
            phase |-> "sent", status |-> 0]}
    /\ nreq' = nreq + 1
    /\ issues' = PatchIssues(issues, n, moveIssueNext(FindIssue(n), to))
    /\ UNCHANGED <<remote, storedToken, mounted, token, owner, repo, loading, error,
                   loads, lastLoad, lastLoadOk, lastApplied, lastPatched, offBoard>>

\* onDragEnd of card n over column to: moveIssue up to its await
moveIssueStart(n, to) ==
    /\ mounted
    /\ ready
    /\ InBoard(n)
    /\ nreq < MaxReq
    /\ puts' = puts \cup
          {[id |-> nreq + 1, num |-> n, to |-> to, next |-> moveIssueNext(FindIssue(n), to),
            overlap |-> {p.id : p \in {q \in puts : q.num = n /\ q.phase # "done"}},
            phase |-> "sent", status |-> 0]}
    /\ nreq' = nreq + 1
    /\ UNCHANGED <<remote, storedToken, mounted, token, owner, repo, loading, error, issues,
                   loads, lastLoad, lastLoadOk, lastApplied, lastPatched, offBoard>>

\* PUT /repos/{owner}/{repo}/issues/{number}/labels: the tracker replaces the label set
RemotePutOk(r) ==
    /\ r \in puts
    /\ r.phase = "sent"
    /\ remote' = [remote EXCEPT ![r.num].labels = ToSet(r.next)]
    /\ lastApplied' = [lastApplied EXCEPT ![r.num] = r.id]
    /\ puts' = (puts \ {r}) \cup {[r EXCEPT !.phase = "ok", !.status = 200]}
    /\ UNCHANGED <<storedToken, mounted, token, owner, repo, loading, error, issues, loads,
                   nreq, lastLoad, lastLoadOk, lastPatched, offBoard>>

RemotePutFail(r, s) ==
    /\ r \in puts
    /\ r.phase = "sent"
    /\ puts' = (puts \ {r}) \cup {[r EXCEPT !.phase = "fail", !.status = s]}
    /\ UNCHANGED <<remote, storedToken, mounted, token, owner, repo, loading, error, issues,
                   loads, nreq, lastLoad, lastLoadOk, lastApplied, lastPatched, offBoard>>

\* moveIssueResolve without the optimistic update
moveIssueResolve_NoPatch(r) ==
    /\ r \in puts
    /\ r.phase = "ok"
    /\ lastPatched' = [lastPatched EXCEPT ![r.num] = IF InBoard(r.num) THEN r.id ELSE @]
    /\ puts' = (puts \ {r}) \cup {[r EXCEPT !.phase = "done"]}
    /\ UNCHANGED <<remote, storedToken, mounted, token, owner, repo, loading, error, issues,
                   loads, nreq, lastLoad, lastLoadOk, lastApplied, offBoard>>

\* moveIssue after its await, on success: the optimistic update
moveIssueResolve(r) ==
    /\ r \in puts
    /\ r.phase = "ok"
    /\ issues' = PatchIssues(issues, r.num, r.next)
    /\ lastPatched' = [lastPatched EXCEPT ![r.num] = IF InBoard(r.num) THEN r.id ELSE @]
    /\ puts' = (puts \ {r}) \cup {[r EXCEPT !.phase = "done"]}
    /\ UNCHANGED <<remote, storedToken, mounted, token, owner, repo, loading, error, loads,
                   nreq, lastLoad, lastLoadOk, lastApplied, offBoard>>

\* moveIssue rejected: onDragEnd's catch, setError(err.message)
moveIssueReject(r) ==
    /\ r \in puts
    /\ r.phase = "fail"
    /\ error' = ghFetchError(r.status)
    /\ puts' = (puts \ {r}) \cup {[r EXCEPT !.phase = "done"]}
    /\ UNCHANGED <<remote, storedToken, mounted, token, owner, repo, loading, issues, loads,
                   nreq, lastLoad, lastLoadOk, lastApplied, lastPatched, offBoard>>

----------------------------------------------------------------------------
\* Server-held mode: the session endpoint and the cookies

CookieNames == {"kb_token", "kb_owner", "kb_repo"}

\* what jar.get(name)?.value gives when the request carries no such cookie; in a
\* body, a field that is no string
Undefined == "<undefined>"

\* per name, the Set-Cookie the browser received last: a cookie of maxAge "0" has
\* expired and is not sent with later requests
NoCookie == [set |-> FALSE, value |-> "", maxAge |-> "session"]

Cookie(v, age) == [set |-> TRUE, value |-> v, maxAge |-> age]

NoJar == [c \in CookieNames |-> NoCookie]

\* jar.get(name)?.value
Get(j, name) == IF j[name].set /\ j[name].maxAge # "0" THEN j[name].value ELSE Undefined

\* !x, for x a string or undefined
Falsy(x) == x = Undefined \/ x = ""

\* the bodies of a session POST (an unreadable body is the one without fields)
Bodies ==
    [token : {Undefined, "", Tok},
     owner : {Undefined, "", DefaultOwner},
     repo : {Undefined, "", DefaultRepo}]

NoBody == [token |-> Undefined, owner |-> Undefined, repo |-> Undefined]

\* the body field stored in each cookie
BodyField == [kb_token |-> "token", kb_owner |-> "owner", kb_repo |-> "repo"]

\* the names for which the body holds a non-empty string
Supplied(body) == {c \in CookieNames : ~Falsy(body[BodyField[c]])}

\* the session endpoint's record: a DELETE was called; since the last DELETE, the
\* names POSTs supplied and whether one POST supplied all three
NoSession == [deleted |-> FALSE, given |-> {}, whole |-> FALSE]

\* the session endpoint's POST
POST(body) ==
    /\ jar' = [c \in CookieNames |->
                  IF body[BodyField[c]] # Undefined
                  THEN Cookie(body[BodyField[c]], "session")
                  ELSE jar[c]]
    /\ session' = [deleted |-> session.deleted,
                   given |-> IF session.deleted THEN session.given \cup Supplied(body)
                             ELSE {},
                   whole |-> session.deleted
                             /\ (session.whole \/ Supplied(body) = CookieNames)]
    /\ page' = [page EXCEPT !.fresh = (@ /\ jar' = jar)]
    /\ UNCHANGED <<calls, boardVars, pureVars, ensureVars>>

\* DELETE_TokenOnly clearing the token cookie alone
DELETE_TokenOnly ==
    /\ jar' = [jar EXCEPT !["kb_token"] = Cookie("", "0")]
    /\ session' = [deleted |-> TRUE, given |-> {}, whole |-> FALSE]
    /\ page' = [page EXCEPT !.fresh = (@ /\ jar' = jar)]
    /\ UNCHANGED <<calls, boardVars, pureVars, ensureVars>>

\* the session endpoint's DELETE
DELETE ==
    /\ jar' = [c \in CookieNames |-> Cookie("", "0")]
    /\ session' = [deleted |-> TRUE, given |-> {}, whole |-> FALSE]
    /\ page' = [page EXCEPT !.fresh = (@ /\ jar' = jar)]
    /\ UNCHANGED <<calls, boardVars, pureVars, ensureVars>>

----------------------------------------------------------------------------
\* Server-held mode: the detail page

NoPage ==
    [view |-> "none", number |-> 0, owner |-> "", repo |-> "", labelNames |-> <<>>,
     message |-> Null, saving |-> "", error |-> Null, fresh |-> FALSE]

\* IssuePage for issue n, s the status of the tracker's answer to the issue request
Rendered(n, s) ==
    LET t == Get(jar, "kb_token")
        o == IF Falsy(Get(jar, "kb_owner")) THEN DefaultOwner ELSE Get(jar, "kb_owner")
        r == IF Falsy(Get(jar, "kb_repo")) THEN DefaultRepo ELSE Get(jar, "kb_repo")
    IN  IF Falsy(t)
        THEN [NoPage EXCEPT !.view = "missing", !.number = n, !.fresh = TRUE]
        ELSE IF s = 200
        THEN [NoPage EXCEPT !.view = "issue", !.number = n, !.owner = o, !.repo = r,
                            !.labelNames = ListedLabels(remote[n].labels),
                            !.fresh = TRUE]
        ELSE [NoPage EXCEPT !.view = "error", !.number = n, !.owner = o, !.repo = r,
                            !.message = ghFetchError(s), !.fresh = TRUE]

\* the browser opens the detail page of issue n (not while a status is being saved)
IssuePage(n) ==
    /\ page.saving = ""
    /\ \E s \in {200} \cup FailStatuses : page' = Rendered(n, s)
    /\ UNCHANGED <<jar, session, calls, boardVars, pureVars, ensureVars>>

\* the tracker's own UI adds passenger label l to issue n
TrackerEdit(n, l) ==
    /\ ~remote[n].pull_request
    /\ l \notin remote[n].labels
    /\ remote' = [remote EXCEPT ![n].labels = @ \cup {l}]
    /\ UNCHANGED <<storedToken, mounted, token, owner, repo, loading, error, issues, loads,
                   puts, nreq, lastLoad, lastLoadOk, lastApplied, lastPatched, offBoard>>

----------------------------------------------------------------------------
\* Server-held mode: the label update proxy and IssueStatusButtons

\* an element of a labels array that is no string
NonString == "<no string>"

LabelsBody(items) == [isArray |-> TRUE, items |-> items]

\* a body without a labels array (an unreadable body included)
NotArrayBody == [isArray |-> FALSE, items |-> <<>>]

\* the bodies of the proxy calls that IssueStatusButtons does not make
DirectBodies == {NotArrayBody, LabelsBody(<<"kb:done", NonString>>)}

NoResponse ==
    [status |-> 0, ok |-> FALSE, labels |-> <<>>, statusText |-> "", body |-> "",
     error |-> ""]

\* const next = Array.isArray(body.labels) ? body.labels : []; next.filter(...)
Sanitize(body) ==
    LET next == IF body.isArray THEN body.items ELSE <<>>
    IN  SelectSeq(next, LAMBDA x : x # NonString)

Unauthorized ==
    [NoResponse EXCEPT !.status = 401, !.error = "missing_session"]

\* a proxy call as the browser sends it, with the cookies it holds; sent records
\* the session endpoint's record and the page's repository at that time
NewCall(n, origin, body) ==
    [num |-> n, origin |-> origin, body |-> body,
     token |-> Get(jar, "kb_token"), owner |-> Get(jar, "kb_owner"),
     repo |-> Get(jar, "kb_repo"),
     sent |-> [deleted |-> session.deleted, given |-> session.given,
               whole |-> session.whole, fresh |-> (origin = "page" /\ page.fresh),
               owner |-> page.owner, repo |-> page.repo],
     phase |-> "sent", forwards |-> <<>>, before |-> {}, applied |-> {},
     remoteStatus |-> 0, remoteText |-> "", response |-> NoResponse]

\* PUT_NoSessionCheck forwarding without looking at the cookies
PUT_NoSessionCheck(c) ==
    [c EXCEPT !.phase = "forwarded",
              !.forwards = <<[owner |-> c.owner, repo |-> c.repo, number |-> c.num,
                              token |-> c.token, labels |-> Sanitize(c.body)]>>]

\* the proxy's PUT up to its await, for request c: the session check, then the
\* label-replace call
PUT(c) ==
    IF Falsy(c.token) \/ Falsy(c.owner) \/ Falsy(c.repo)
    THEN [c EXCEPT !.phase = "responded", !.response = Unauthorized]
    ELSE [c EXCEPT !.phase = "forwarded",
                   !.forwards = <<[owner |-> c.owner, repo |-> c.repo, number |-> c.num,
                                   token |-> c.token, labels |-> Sanitize(c.body)]>>]

\* IssueStatusButtons.setStatus up to its await; the proxy receives the request
setStatus(to) ==
    /\ page.view = "issue"
    /\ page.saving = ""
    /\ page' = [page EXCEPT !.saving = to, !.error = Null]
    /\ calls' = calls \cup
          {PUT(NewCall(page.number, "page",
                       LabelsBody(setStatusNext(page.labelNames, to))))}
    /\ UNCHANGED <<jar, session, boardVars, pureVars, ensureVars>>

\* another client calls the proxy, one call at a time; the proxy receives the request
DirectCall(n, body) ==
    /\ calls = {}
    /\ calls' = {PUT(NewCall(n, "direct", body))}
    /\ UNCHANGED <<jar, session, page, boardVars, pureVars, ensureVars>>

\* the non-success answers of the tracker to a label-replace call
ReplaceFailures == {403, 404}

\* the tracker replaces the label set of the issue the proxy named
TrackerReplaceOk(c) ==
    /\ c \in calls
    /\ c.phase = "forwarded"
    /\ remote' = [remote EXCEPT ![c.forwards[1].number].labels = ToSet(c.forwards[1].labels)]
    /\ calls' = (calls \ {c}) \cup
          {[c EXCEPT !.phase = "answered", !.remoteStatus = 200,
                     !.before = remote[c.forwards[1].number].labels,
                     !.applied = ToSet(c.forwards[1].labels)]}
    /\ UNCHANGED <<jar, session, page, storedToken, mounted, token, owner, repo, loading,
                   error, issues, loads, puts, nreq, lastLoad, lastLoadOk, lastApplied,
                   lastPatched, pureVars, ensureVars>>

\* the tracker refuses the label-replace call: status s, with its body text
TrackerReplaceFail(c, s) ==
    /\ c \in calls
    /\ c.phase = "forwarded"
    /\ calls' = (calls \ {c}) \cup
          {[c EXCEPT !.phase = "answered", !.remoteStatus = s, !.remoteText = BodyText(s)]}
    /\ UNCHANGED <<jar, session, page, boardVars, pureVars, ensureVars>>

\* PUTResume_AlwaysOk answering ok whatever the tracker said
PUTResume_AlwaysOk(c) ==
    /\ c \in calls
    /\ c.phase = "answered"
    /\ calls' = (calls \ {c}) \cup
          {[c EXCEPT !.phase = "responded",
                     !.response = [NoResponse EXCEPT !.status = 200, !.ok = TRUE,
                                                     !.labels = c.forwards[1].labels]]}
    /\ UNCHANGED <<jar, session, page, boardVars, pureVars, ensureVars>>

\* the proxy's PUT after its await: the structured error or the labels
PUTResume(c) ==
    /\ c \in calls
    /\ c.phase = "answered"
    /\ calls' = (calls \ {c}) \cup
          {IF c.remoteStatus # 200
           THEN [c EXCEPT !.phase = "responded",
                          !.response = [NoResponse EXCEPT
                                           !.status = c.remoteStatus,
                                           !.statusText = StatusText(c.remoteStatus),
                                           !.body = c.remoteText]]
           ELSE [c EXCEPT !.phase = "responded",
                          !.response = [NoResponse EXCEPT !.status = 200, !.ok = TRUE,
                                                          !.labels = c.forwards[1].labels]]}
    /\ UNCHANGED <<jar, session, page, boardVars, pureVars, ensureVars>>

\* setStatus after its await, on an ok response: window.location.reload()
setStatusResolve(c) ==
    /\ c \in calls
    /\ c.origin = "page"
    /\ c.phase = "responded"
    /\ c.response.ok
    /\ \E s \in {200} \cup FailStatuses : page' = Rendered(c.num, s)
    /\ calls' = calls \ {c}
    /\ UNCHANGED <<jar, session, boardVars, pureVars, ensureVars>>

\* setStatus after its await, on a response that is not ok: setError, setSaving(null)
setStatusReject(c) ==
    /\ c \in calls
    /\ c.origin = "page"
    /\ c.phase = "responded"
    /\ ~c.response.ok
    /\ page' = [page EXCEPT
                   !.error = ErrorMessage(c.response.status, StatusText(c.response.status),
                                          ToString(c.response)),
                   !.saving = ""]
    /\ calls' = calls \ {c}
    /\ UNCHANGED <<jar, session, boardVars, pureVars, ensureVars>>

\* the other client receives its response
ResponseDropped(c) ==
    /\ c \in calls
    /\ c.origin = "direct"
    /\ c.phase = "responded"
    /\ calls' = calls \ {c}
    /\ UNCHANGED <<jar, session, page, boardVars, pureVars, ensureVars>>

ServerIdle ==
    /\ jar = NoJar
    /\ session = NoSession
    /\ page = NoPage
    /\ calls = {}

----------------------------------------------------------------------------
\* Home: the Ensure labels button

\* the labels ensureLabelsExist creates, in order
wanted ==
    <<[name |-> COLUMN_META.todo.label, color |-> "6e7681"],
      [name |-> COLUMN_META.doing.label, color |-> "1f6feb"],
      [name |-> COLUMN_META.done.label, color |-> "2da44e"]>>

\* the answers of the tracker to a label-create request that does not create
CreateFailures == {403, 422}

\* the Ensure labels button (disabled={!ready}): ensureLabelsExist up to its first
\* await; token is the token the run carries in every request it makes
ensureLabelsExist ==
    /\ mounted
    /\ ready
    /\ nreq < MaxReq
    /\ ensures' = ensures \cup
          {[id |-> nreq + 1, i |-> 1, phase |-> "sent", token |-> token,
            creates |-> <<wanted[1].name>>, status |-> 0]}
    /\ nreq' = nreq + 1
    /\ UNCHANGED <<remote, storedToken, mounted, token, owner, repo, loading, error, issues,
                   loads, puts, lastLoad, lastLoadOk, lastApplied, lastPatched,
                   repoLabels, pureVars, serverVars>>

\* POST /repos/{owner}/{repo}/labels: the tracker creates the label
TrackerCreateOk(e) ==
    /\ e \in ensures
    /\ e.phase = "sent"
    /\ wanted[e.i].name \notin repoLabels
    /\ repoLabels' = repoLabels \cup {wanted[e.i].name}
    /\ ensures' = (ensures \ {e}) \cup {[e EXCEPT !.phase = "ok", !.status = 201]}
    /\ UNCHANGED <<boardVars, pureVars, serverVars>>

\* the tracker refuses: the label exists already (422) or the token may not
\* create labels (403)
TrackerCreateFail(e, s) ==
    /\ e \in ensures
    /\ e.phase = "sent"
    /\ s = 422 => wanted[e.i].name \in repoLabels
    /\ ensures' = (ensures \ {e}) \cup {[e EXCEPT !.phase = "fail", !.status = s]}
    /\ UNCHANGED <<repoLabels, boardVars, pureVars, serverVars>>

\* the next request of run e, or its end
NextCreate(e) ==
    IF e.i < Len(wanted)
    THEN [e EXCEPT !.i = @ + 1, !.phase = "sent",
                   !.creates = Append(@, wanted[e.i + 1].name)]
    ELSE [e EXCEPT !.phase = "done"]

\* ensureResume showing the failure as the other handlers do, and giving up
ensureResume_Surfaces(e) ==
    /\ e \in ensures
    /\ e.phase \in {"ok", "fail"}
    /\ ensures' = (ensures \ {e}) \cup
          {IF e.phase = "fail" THEN [e EXCEPT !.phase = "done"] ELSE NextCreate(e)}
    /\ error' = IF e.phase = "fail" THEN ghFetchError(e.status) ELSE error
    /\ UNCHANGED <<remote, storedToken, mounted, token, owner, repo, loading, issues,
                   loads, puts, nreq, lastLoad, lastLoadOk, lastApplied, lastPatched,
                   repoLabels, pureVars, serverVars>>

\* ensureLabelsExist after an await: the catch ignores a failure, the loop goes on
ensureResume(e) ==
    /\ e \in ensures
    /\ e.phase \in {"ok", "fail"}
    /\ ensures' = (ensures \ {e}) \cup {NextCreate(e)}
    /\ UNCHANGED <<repoLabels, boardVars, pureVars, serverVars>>

\* the labels the repository defines when the board is opened
StartRepoLabels == {{}, {"kb:todo"}, ReservedLabels}

EnsureIdle ==
    /\ repoLabels = {}
    /\ ensures = {}

----------------------------------------------------------------------------
\* Specifications

\* the page as constructed, before its mount effect
Constructed ==
    /\ storedToken \in {"", Tok}
    /\ mounted = FALSE
    /\ token = ""
    /\ owner = ""
    /\ repo = ""
    /\ loading = FALSE
    /\ error = Null
    /\ issues = <<>>
    /\ loads = {}
    /\ puts = {}
    /\ nreq = 0
    /\ lastLoad = 0
    /\ lastLoadOk = FALSE
    /\ lastApplied = NoPatch
    /\ lastPatched = NoPatch

\* the board against the tracker
Init ==
    /\ remote \in RemoteConfigs
    /\ Constructed
    /\ arg = ArgNone
    /\ res = ResNone
    /\ ServerIdle
    /\ EnsureIdle

Next ==
    \/ Mount
    \/ EnterToken
    \/ Refresh
    \/ Logout
    \/ \E r \in loads : RemoteListOk(r)
    \/ \E r \in loads, s \in FailStatuses : RemoteListFail(r, s)
    \/ \E r \in loads : loadIssuesResolve(r)
    \/ \E r \in loads : loadIssuesReject(r)
    \/ \E n \in Numbers, to \in ColumnIds : moveIssueStart(n, to)
    \/ \E r \in puts : RemotePutOk(r)
    \/ \E r \in puts, s \in FailStatuses : RemotePutFail(r, s)
    \/ \E r \in puts : moveIssueResolve(r)
    \/ \E r \in puts : moveIssueReject(r)

Spec == Init /\ [][Next]_vars

\* the classifier and the mutators applied to every bounded input
InitPure ==
    /\ remote = CHOOSE c \in RemoteConfigs : TRUE
    /\ storedToken = ""
    /\ mounted = FALSE
    /\ token = ""
    /\ owner = ""
    /\ repo = ""
    /\ loading = FALSE
    /\ error = Null
    /\ issues = <<>>
    /\ loads = {}
    /\ puts = {}
    /\ nreq = 0
    /\ lastLoad = 0
    /\ lastLoadOk = FALSE
    /\ lastApplied = NoPatch
    /\ lastPatched = NoPatch
    /\ arg \in Args
    /\ res = ResNone
    /\ ServerIdle
    /\ EnsureIdle

NextPure ==
    \/ ApplyColumns
    \/ ApplyMoveIssue
    \/ ApplyStatusButton
    \/ ApplySetStatus

SpecPure == InitPure /\ [][NextPure]_vars

\* the tracker as the server-held specifications start: issue 1 open and
\* carrying kb:todo and kb:done
ServerRemote ==
    CHOOSE c \in RemoteConfigs : c[1].state = "open" /\ c[1].labels = {"bug", "kb:todo", "kb:done"}

\* the numbers of the issues whose detail page is opened
PageNumbers == {n \in Numbers : ~ServerRemote[n].pull_request}

\* the session POSTs of the page's user: the token alone, or all three fields
PageBodies ==
    {[NoBody EXCEPT !.token = Tok],
     [token |-> Tok, owner |-> DefaultOwner, repo |-> DefaultRepo]}

\* the server-held detail page and the label update proxy against the tracker
InitServer ==
    /\ remote = ServerRemote
    /\ Constructed
    /\ storedToken = ""
    /\ arg = ArgNone
    /\ res = ResNone
    /\ ServerIdle
    /\ EnsureIdle

NextServer ==
    \/ \E body \in PageBodies : POST(body)
    \/ DELETE
    \/ \E n \in PageNumbers : IssuePage(n)
    \/ \E n \in PageNumbers : TrackerEdit(n, "priority:high")
    \/ \E to \in ColumnIds : setStatus(to)
    \/ \E c \in calls : TrackerReplaceOk(c)
    \/ \E c \in calls, s \in ReplaceFailures : TrackerReplaceFail(c, s)
    \/ \E c \in calls : PUTResume(c)
    \/ \E c \in calls : setStatusResolve(c)
    \/ \E c \in calls : setStatusReject(c)

SpecServer == InitServer /\ [][NextServer]_vars

\* the session endpoint and the label update proxy, called by a client that waits
\* for each response before its next call
NextSession ==
    \/ calls = {} /\ \E body \in Bodies : POST(body)
    \/ calls = {} /\ DELETE
    \/ \E n \in PageNumbers, body \in DirectBodies : DirectCall(n, body)
    \/ \E c \in calls : TrackerReplaceOk(c)
    \/ \E c \in calls, s \in ReplaceFailures : TrackerReplaceFail(c, s)
    \/ \E c \in calls : PUTResume(c)
    \/ \E c \in calls : ResponseDropped(c)

SpecSession == InitServer /\ [][NextSession]_vars

\* the board with its Ensure labels button, without moves
InitEnsure ==
    /\ remote = CHOOSE c \in RemoteConfigs : TRUE
    /\ Constructed
    /\ arg = ArgNone
    /\ res = ResNone
    /\ ServerIdle
    /\ repoLabels \in StartRepoLabels
    /\ ensures = {}

NextEnsure ==
    \/ Mount
    \/ EnterToken
    \/ Refresh
    \/ Logout
    \/ \E r \in loads : RemoteListOk(r)
    \/ \E r \in loads, s \in FailStatuses : RemoteListFail(r, s)
    \/ \E r \in loads : loadIssuesResolve(r)
    \/ \E r \in loads : loadIssuesReject(r)
    \/ ensureLabelsExist
    \/ \E e \in ensures : TrackerCreateOk(e)
    \/ \E e \in ensures, s \in CreateFailures : TrackerCreateFail(e, s)
    \/ \E e \in ensures : ensureResume(e)

SpecEnsure == InitEnsure /\ [][NextEnsure]_vars

----------------------------------------------------------------------------
\* Properties of the classifier and the mutators (SpecPure)

MoveOps == {"moveIssue", "statusButton", "setStatus"}

ArgNames == ToSet(arg.labels)

TargetLabel == COLUMN_META[arg.to].label

\* the column the precedence rules give the issue arg describes
PrecedenceColumn ==
    IF "kb:todo" \in ArgNames THEN "todo"
    ELSE IF "kb:doing" \in ArgNames THEN "doing"
    ELSE IF "kb:done" \in ArgNames THEN "done"
    ELSE IF arg.state = "closed" THEN "done"
    ELSE "todo"

\* C1: for every lifecycle state and every label list, the classifier puts the
\* issue in the column given by the precedence kb:todo, kb:doing, kb:done, closed,
\* default todo, and in no other column.
C1_ClassifierPrecedence ==
    res.op = "columns" =>
        \A col \in ColumnIds :
            res.byColumn[col] = IF col = PrecedenceColumn THEN <<ArgIssue>> ELSE <<>>

\* a closed issue carrying kb:doing and kb:done was classified, into doing
C1_Witness ==
    /\ res.op = "columns"
    /\ arg.state = "closed"
    /\ ArgNames = {"kb:doing", "kb:done"}
    /\ res.byColumn.doing = <<ArgIssue>>

\* C2: the label list a move computes holds every non-reserved label of the
\* current list exactly once, and no non-reserved label that was not in it.
C2_PassengerLabelsKept ==
    res.op \in MoveOps =>
        /\ \A l \in ArgNames \ ReservedLabels : Count(res.next, l) = 1
        /\ \A l \in ToSet(res.next) \ ReservedLabels : l \in ArgNames

\* a move was computed from a list holding a passenger label twice and a stale
\* column label
C2_Witness ==
    /\ res.op \in MoveOps
    /\ arg.labels = <<"bug", "kb:todo", "bug">>
    /\ arg.to = "done"
    /\ res.next = <<"bug", "kb:done">>

\* C3: the label list a move to column C computes holds C's reserved label exactly
\* once and neither of the other two reserved labels, whichever reserved labels the
\* current list holds.
C3_OneColumnLabel ==
    res.op \in MoveOps =>
        \A l \in ReservedLabels : Count(res.next, l) = IF l = TargetLabel THEN 1 ELSE 0

\* a move to doing was computed from a list holding all three reserved labels
C3_Witness ==
    /\ res.op \in MoveOps
    /\ ReservedLabels \subseteq ArgNames
    /\ arg.to = "doing"
    /\ Count(res.next, "kb:doing") = 1

\* no element of s occurs twice
NoDuplicates(s) == \A i, j \in 1..Len(s) : s[i] = s[j] => i = j

\* the current list holds the target's reserved label and no other reserved label
OnlyTargetLabel == ArgNames \cap ReservedLabels = {TargetLabel}

\* C7 as claimed: a move to the column the classifier already gives the issue
\* computes the current label set.
C7_Original ==
    (res.op \in MoveOps /\ PrecedenceColumn = arg.to) => ToSet(res.next) = ArgNames

\* C7: among the moves to the column the classifier already gives the issue, the
\* label set computed equals the current one exactly when the current list holds
\* the target's reserved label and no other reserved label; then, a list without
\* duplicates is sent unchanged, order included.
C7_IdempotentOnLabelled ==
    (res.op \in MoveOps /\ PrecedenceColumn = arg.to) =>
        /\ OnlyTargetLabel <=> ToSet(res.next) = ArgNames
        /\ (OnlyTargetLabel /\ NoDuplicates(arg.labels)) => res.next = arg.labels

\* an issue carrying only kb:doing, listed before a passenger label, was moved to
\* doing
C7_Witness ==
    /\ res.op \in MoveOps
    /\ arg.labels = <<"kb:doing", "bug">>
    /\ arg.to = "doing"
    /\ res.next = arg.labels

\* C18: for every label list and target column, moveIssue, the status button of
\* the client-held detail page and setStatus compute the same list to send,
\* element by element.
C18_SameNext ==
    res.op \in MoveOps =>
        /\ res.next = moveIssueNext(ArgIssue, arg.to)
        /\ res.next = statusButtonNext(ArgIssue, arg.to)
        /\ res.next = setStatusNext(LabelNames(ArgIssue), arg.to)

\* a list was computed from a current list holding kb:doing twice and kb:todo,
\* for the target doing
C18_Witness ==
    /\ res.op \in MoveOps
    /\ arg.labels = <<"kb:doing", "kb:todo", "kb:doing">>
    /\ arg.to = "doing"
    /\ res.next = <<"kb:doing">>

----------------------------------------------------------------------------
\* Properties of the board (Spec)

\* the positions of list that hold issue x
Places(list, x) == {j \in 1..Len(list) : list[j] = x}

\* the columns whose list holds the issue numbered n
ColumnsOf(n) ==
    LET byColumn == columns(issues)
    IN  {col \in ColumnIds : \E j \in 1..Len(byColumn[col]) : byColumn[col][j].number = n}

PutOf(id) == CHOOSE p \in puts : p.id = id

\* C4: every issue of the issue list is at exactly one position of the three
\* column lists, and the column lists hold nothing that is not in the issue list.
C4_EveryIssueInOneColumn ==
    LET byColumn == columns(issues)
        all == byColumn.todo \o byColumn.doing \o byColumn.done
    IN  /\ \A i \in 1..Len(issues) : Cardinality(Places(all, issues[i])) = 1
        /\ \A j \in 1..Len(all) : \E i \in 1..Len(issues) : issues[i] = all[j]

\* after a move was handled, the board holds two issues, one of them closed and
\* carrying kb:todo
C4_Witness ==
    /\ \E p \in puts : p.phase = "done"
    /\ Len(issues) = 2
    /\ \E i \in 1..Len(issues) :
           issues[i].state = "closed" /\ hasLabel(issues[i], "kb:todo")

\* C5: while the labels the board holds for an issue are those patched in by a
\* successful move to column C, the classifier places that issue in C and in no
\* other column.
C5_MovedIssueInTargetColumn ==
    \A n \in Numbers :
        lastPatched[n] # 0 => ColumnsOf(n) = {PutOf(lastPatched[n]).to}

\* a closed issue was moved to doing and the patch put it there
C5_Witness ==
    \E n \in Numbers :
        /\ lastPatched[n] # 0
        /\ PutOf(lastPatched[n]).to = "doing"
        /\ FindIssue(n).state = "closed"
        /\ ColumnsOf(n) = {"doing"}

\* a step in which moveIssue is started
MoveStarted == nreq' = nreq + 1 /\ \E p \in puts' : p.id = nreq'

\* a step in which the rejection of put p is handled
MoveRejected(p) == p.phase = "fail" /\ [p EXCEPT !.phase = "done"] \in puts'

\* C6: neither the start of a move nor the handling of its non-success response
\* changes the issue list, and handling the response sets the error to a message
\* that holds the status code.
C6_FailedMoveLeavesBoard ==
    [][/\ MoveStarted => issues' = issues
       /\ \A p \in puts : MoveRejected(p) =>
              /\ issues' = issues
              /\ Includes(error', ToString(p.status))]_vars

\* a move was rejected with 403 and the error shows it, the board still loaded
C6_Witness ==
    /\ \E p \in puts : p.phase = "done" /\ p.status = 403
    /\ Includes(error, "403")
    /\ Len(issues) = 2

\* two moves a, b of one issue, b started while a was in flight, both answered
\* with success and both handled, the board's and the tracker's labels of the
\* issue last written by one of them
RacePair(a, b) ==
    /\ a.num = b.num
    /\ a.id \in b.overlap
    /\ a.phase = "done" /\ a.status = 200
    /\ b.phase = "done" /\ b.status = 200
    /\ lastPatched[a.num] \in {a.id, b.id}
    /\ lastApplied[a.num] \in {a.id, b.id}

\* C8 as claimed: after two overlapping moves of an issue, the board and the
\* tracker both hold the second move's label set.
C8_Original ==
    \A a, b \in puts :
        RacePair(a, b) =>
            /\ LabelNames(FindIssue(a.num)) = b.next
            /\ remote[a.num].labels = ToSet(b.next)

\* C8: after two overlapping moves of an issue, the board holds the label set of
\* the move whose response was handled last and the tracker the label set of the
\* write it applied last.
C8_LastHandledWins ==
    \A a, b \in puts :
        RacePair(a, b) =>
            /\ LabelNames(FindIssue(a.num)) = PutOf(lastPatched[a.num]).next
            /\ remote[a.num].labels = ToSet(PutOf(lastApplied[a.num]).next)

\* two overlapping moves to different columns: the tracker applied the second
\* write last, the board handled the first response last
C8_Witness ==
    \E a, b \in puts :
        /\ RacePair(a, b)
        /\ a.to # b.to
        /\ lastApplied[a.num] = b.id
        /\ lastPatched[a.num] = a.id

\* the numbers of the issue list, in order
BoardNumbers == [i \in 1..Len(issues) |-> issues[i].number]

\* the board holds the tracker's issues that are no pull requests, each with the
\* tracker's lifecycle state and label set
BoardMatchesRemote ==
    /\ \A n \in Numbers : ~remote[n].pull_request => Count(BoardNumbers, n) = 1
    /\ \A i \in 1..Len(issues) :
           /\ ~remote[issues[i].number].pull_request
           /\ issues[i].state = remote[issues[i].number].state
           /\ ToSet(LabelNames(issues[i])) = remote[issues[i].number].labels

\* C9 as claimed: with a session, once no request is in flight, every move was
\* started before the most recently started load and that load has succeeded, the
\* board matches the tracker.
C9_Original ==
    ( /\ token # ""
      /\ loads = {}
      /\ \A p \in puts : p.phase = "done" /\ p.id < lastLoad
      /\ lastLoadOk ) => BoardMatchesRemote

\* C10: no entry of the issue list carries a pull-request marker.
C10_NoPullRequest == \A i \in 1..Len(issues) : ~issues[i].pull_request

\* the list response held a pull request and the board, loaded from it, was
\* patched by a move
C10_Witness ==
    /\ \E n \in Numbers : remote[n].pull_request
    /\ \E n \in Numbers : lastPatched[n] # 0
    /\ Len(issues) = 2

\* C17 as claimed: on the mounted board, while the token is empty (from Log out
\* until a token is entered) the issue list is empty.
C17_Original == (mounted /\ token = "") => issues = <<>>

----------------------------------------------------------------------------
\* Properties of the session endpoint and the label update proxy (SpecSession)

\* the request carries no session: one of the three cookies is missing or empty
SessionAbsent(c) == Falsy(c.token) \/ Falsy(c.owner) \/ Falsy(c.repo)

\* C11: a proxy call without a session is answered 401, not ok, and no
\* label-replace call is made for it; with a session, exactly one label-replace
\* call is made, for the issue number of the request.
C11_SessionRequired ==
    \A c \in calls :
        IF SessionAbsent(c)
        THEN /\ c.phase = "responded"
             /\ c.response.status = 401
             /\ ~c.response.ok
             /\ c.forwards = <<>>
             /\ c.remoteStatus = 0
        ELSE /\ Len(c.forwards) = 1
             /\ c.forwards[1].number = c.num

\* a call carrying a token but no owner cookie was answered 401
C11_Witness ==
    \E c \in calls :
        /\ c.token = Tok
        /\ c.owner = Undefined
        /\ c.response.status = 401

\* a POST with this body sets the cookies of its string fields and no other
Overwrites(body) ==
    \A n \in CookieNames :
        jar'[n] = IF body[BodyField[n]] # Undefined
                  THEN Cookie(body[BodyField[n]], "session")
                  ELSE jar[n]

\* every cookie holds an empty value and has expired
Cleared(j) == \A n \in CookieNames : j[n] = Cookie("", "0")

\* C12 as claimed: a POST overwrites the cookies of its string fields alone, a
\* DELETE clears all three, and a proxy call made after a DELETE is answered 401
\* unless one POST since then supplied a non-empty token, owner and repo.
C12_Original ==
    /\ [][/\ \A body \in Bodies : POST(body) => Overwrites(body)
          /\ DELETE => Cleared(jar')]_vars
    /\ [](\A c \in calls :
             (c.sent.deleted /\ ~c.sent.whole) => c.response.status = 401)

\* C12: a POST overwrites the cookies of its string fields alone, a DELETE clears
\* all three, and a proxy call made after a DELETE is answered 401 unless the
\* POSTs since then have supplied, between them, a non-empty token, owner and repo.
C12_SessionTeardown ==
    /\ [][/\ \A body \in Bodies : POST(body) => Overwrites(body)
          /\ DELETE => Cleared(jar')]_vars
    /\ [](\A c \in calls :
             (c.sent.deleted /\ c.sent.given # CookieNames) => c.response.status = 401)

\* after a DELETE and a POST of the token alone, a proxy call was answered 401
C12_Witness ==
    \E c \in calls :
        /\ c.sent.deleted
        /\ c.sent.given = {"kb_token"}
        /\ c.token = Tok
        /\ c.response.status = 401

\* C15: the response to a forwarded proxy call is ok with the label set the
\* tracker applied when the tracker answered with success, and otherwise not ok,
\* with the tracker's status code and body text.
C15_ProxyResponse ==
    \A c \in calls :
        (c.phase = "responded" /\ c.forwards # <<>>) =>
            IF c.remoteStatus = 200
            THEN /\ c.response.ok
                 /\ c.response.status = 200
                 /\ ToSet(c.response.labels) = c.applied
            ELSE /\ ~c.response.ok
                 /\ c.response.status = c.remoteStatus
                 /\ c.response.body = c.remoteText

\* the tracker refused a forwarded call with 403 and the proxy answered 403 with
\* the tracker's text
C15_Witness ==
    \E c \in calls :
        /\ c.phase = "responded"
        /\ c.remoteStatus = 403
        /\ c.response.status = 403
        /\ c.response.body = "Resource not accessible"

----------------------------------------------------------------------------
\* Properties of the server-held detail page (SpecServer)

\* C16 as claimed: every passenger label the tracker held for the issue right
\* before a successful label-replace call of a move is in the set the call applied.
C16_Original ==
    \A c \in calls :
        (c.origin = "page" /\ c.remoteStatus = 200) =>
            (c.before \ ReservedLabels) \subseteq c.applied

\* C19 as claimed: a proxy call made from a page that shows the status buttons,
\* in the cookie state the page was rendered in, is not answered 401 and goes to
\* the owner and repository the page fetched the issue from.
C19_Original ==
    \A c \in calls :
        (c.origin = "page" /\ c.sent.fresh) =>
            /\ c.response.status # 401
            /\ Len(c.forwards) = 1
            /\ c.forwards[1].owner = c.sent.owner
            /\ c.forwards[1].repo = c.sent.repo

----------------------------------------------------------------------------
\* Properties of the Ensure labels button (SpecEnsure)

\* a step of a run of ensureLabelsExist
EnsureStep == ensures' # ensures

\* a step in which a run sends a label-create request
CreateStarted == \E e \in ensures' : e.phase = "sent" /\ e \notin ensures

\* a step in which loadIssues is started
LoadStarted == lastLoad' # lastLoad

\* C13: a run of ensureLabelsExist requests the reserved labels one after the
\* other, each once, whatever the tracker answers, and no step of a run changes
\* the issue list, the error, the loading flag or the session of the board.
C13_EnsureSwallows ==
    /\ [](\A e \in ensures :
             /\ e.creates = SubSeq(ColumnLabels, 1, e.i)
             /\ e.phase = "done" => e.creates = ColumnLabels)
    /\ [][EnsureStep => UNCHANGED <<issues, error, loading, token, owner, repo>>]_vars

\* one run has finished and another, refused with a conflict for kb:todo, has
\* requested kb:doing, the board still without error
C13_Witness ==
    /\ \E e \in ensures : e.phase = "done"
    /\ \E e \in ensures : e.i = 2 /\ e.phase = "sent" /\ e.status = 422
    /\ error = Null

\* C14 as claimed: a step that leaves the token, the owner or the repo empty
\* starts no request, and the error only ever becomes the message of a rejected
\* request.
C14_Original ==
    [][/\ ~ready' => ~(LoadStarted \/ MoveStarted \/ CreateStarted)
       /\ (error' # error /\ error' # Null) =>
              \E r \in loads \cup puts : r.phase = "fail" /\ error' = ghFetchError(r.status)
      ]_vars

====
